---- MODULE Spec2Model ----
(***************************************************************************)
(* Model of efd_mods_counter: a batch run that fetches a page, extracts a  *)
(* count, looks up yesterday's count in a date-keyed Excel ledger, upserts *)
(* today's row and reports the day-over-day delta, by toast and by SMS.    *)
(*                                                                         *)
(* Specifications: SpecLedger is the ledger API with a spreadsheet program *)
(* editing the sheet between calls; Spec is main() of efd_mods_counter.py; *)
(* SpecScript is main() of efd_mods_counter_script.py; SpecParse applies   *)
(* the parser to every page of ParsePages; SpecSms runs the SMS block over *)
(* every phonelist.txt of PhoneFiles.                                      *)
(*                                                                         *)
(* Values.  A Python string that matters as a date is a record             *)
(* [fmt, day]: fmt "slash" is the text 'YYYY/MM/DD' of calendar day `day', *)
(* fmt "iso" is 'YYYY-MM-DD', fmt "isotime" is 'YYYY-MM-DD HH:MM:SS' and   *)
(* fmt "junk" is a text that no date parser accepts.  A datetime is a      *)
(* record [day, hour, tz].  Calendar days are numbered 0, 1, 2, ...        *)
(***************************************************************************)
EXTENDS Integers, Sequences, FiniteSets, TLC

\* ------------------------------------------------------------------ bounds
MaxDay   == 1     \* calendar days 0..MaxDay
MaxCount == 1     \* counts 0..MaxCount
MaxRows  == 2     \* data rows kept in the sheet
MaxEdits == 1     \* edits made to the sheet outside the program
MaxLen   == 2     \* characters in the text a pattern captures
MaxLines == 4     \* lines in phonelist.txt

Days   == 0..MaxDay
Counts == 0..MaxCount

\* ----------------------------------------------------------- Python values
None == [kind |-> "none"]

\* the clock readings handed to the ledger: 04:00 Beijing time, and 20:00 UTC,
\* which is 04:00 of the next day in Beijing
Clocks == {[hour |-> 4, tz |-> "beijing"], [hour |-> 20, tz |-> "utc"]}

\* offset of BEIJING_TZ = timezone(timedelta(hours=8))
BEIJING_TZ == 8

utcoffset(tz) == IF tz = "beijing" THEN BEIJING_TZ ELSE 0

datetime(d, h, tz) == [day |-> d, hour |-> h, tz |-> tz]

\* datetime.astimezone(BEIJING_TZ) of an aware datetime
astimezone(dt) ==
    LET h == dt.hour - utcoffset(dt.tz) + BEIJING_TZ
    IN  IF h >= 24 THEN datetime(dt.day + 1, h - 24, "beijing")
        ELSE IF h < 0 THEN datetime(dt.day - 1, h + 24, "beijing")
        ELSE datetime(dt.day, h, "beijing")

\* datetime.strftime('%Y/%m/%d'): the time of day and the zone are dropped
strftime(dt) == [fmt |-> "slash", day |-> dt.day]

\* get_date_str(dt)
get_date_str(dt) == strftime(astimezone(dt))

\* datetime.strptime(s, '%Y/%m/%d'); None stands for the ValueError
strptime(s) ==
    IF s.fmt = "slash" THEN datetime(s.day, 0, "naive") ELSE None

\* datetime.fromisoformat(s); None stands for the ValueError
fromisoformat(s) ==
    IF s.fmt = "iso" THEN datetime(s.day, 0, "naive")
    ELSE IF s.fmt = "isotime" THEN datetime(s.day, s.hour, "naive")
    ELSE None

DateStr(d) == [fmt |-> "slash", day |-> d]
IsoStr(d)  == [fmt |-> "iso", day |-> d]
JunkStr    == [fmt |-> "junk", day |-> 0]

\* ------------------------------------------------------------ sheet cells
StrCell(s) == [kind |-> "str", v |-> s]
DtCell(dt) == [kind |-> "datetime", v |-> dt]
IntCell(n) == [kind |-> "int", v |-> n]

\* str(cell value)
py_str(cell) ==
    IF cell.kind = "datetime"
    THEN [fmt |-> "isotime", day |-> cell.v.day, hour |-> cell.v.hour]
    ELSE IF cell.kind = "str" THEN cell.v
    ELSE [fmt |-> "junk", day |-> 0]

\* int(cell value), boxed as [kind |-> "int", v |-> n]; None stands for the
\* TypeError / ValueError
py_int(cell) == IF cell.kind = "int" THEN IntCell(cell.v) ELSE None

\* the date of a date cell: native datetime, else strptime, else fromisoformat
parse_date_cell(date_cell) ==
    IF date_cell.kind = "datetime" THEN date_cell.v
    ELSE IF strptime(py_str(date_cell)) # None THEN strptime(py_str(date_cell))
    ELSE fromisoformat(py_str(date_cell))

\* the stored text is compared verbatim, without normalizing it
cmp_str_raw(date_cell) == py_str(date_cell)

\* cmp_str = parsed_date.strftime('%Y/%m/%d') if parsed_date else str(date_cell)
cmp_str(date_cell) ==
    LET parsed_date == parse_date_cell(date_cell)
    IN  IF parsed_date # None THEN strftime(parsed_date) ELSE py_str(date_cell)

\* -------------------------------------------------------------- extractor
\* A page is reduced to what the three patterns capture in it: page[k] is the
\* text of group 1 of pattern k, a non-empty sequence over [\d,\.], or <<>>
\* when pattern k does not match.
patterns == <<"See all N Mods", "Showing X of N entries", "searchResults_total">>

Digits == {"0", "1", "2", "3", "4", "5", "6", "7", "8", "9"}

DigitVal(ch) ==
    CASE ch = "0" -> 0 [] ch = "1" -> 1 [] ch = "2" -> 2 [] ch = "3" -> 3
      [] ch = "4" -> 4 [] ch = "5" -> 5 [] ch = "6" -> 6 [] ch = "7" -> 7
      [] ch = "8" -> 8 [] ch = "9" -> 9

IsDigit(ch) == ch \in Digits

\* re.sub(r'[^\d]', '', group)
strip_non_digits(group) == SelectSeq(group, IsDigit)

\* int(num) of a non-empty digit string
RECURSIVE int_of(_)
int_of(num) ==
    IF Len(num) = 0 THEN 0
    ELSE 10 * int_of(SubSeq(num, 1, Len(num) - 1)) + DigitVal(num[Len(num)])

RECURSIVE parse_from(_, _)
parse_from(html, k) ==
    IF k > Len(patterns) THEN None
    ELSE IF html[k] # <<>> /\ strip_non_digits(html[k]) # <<>>
         THEN IntCell(int_of(strip_non_digits(html[k])))
         ELSE parse_from(html, k + 1)

\* a page that no pattern can read yields 0 instead of the ValueError
parse_workshop_mod_count_zero(html) ==
    IF parse_from(html, 1) = None THEN IntCell(0) ELSE parse_from(html, 1)

\* the patterns are tried in the opposite order
parse_workshop_mod_count_last(html) ==
    LET rev == <<html[3], html[2], html[1]>> IN parse_from(rev, 1)

\* parse_workshop_mod_count(html), boxed; None stands for the ValueError
parse_workshop_mod_count(html) == parse_from(html, 1)

PageSeeAll     == << <<"1">>, <<>>, <<>> >>
PageShowing    == << <<>>, <<"1", ",", "0">>, <<"2">> >>
PageSeparators == << <<",">>, <<>>, <<"0">> >>
PageDrift      == << <<>>, <<>>, <<>> >>

\* the bodies the remote end serves
Pages == {PageSeeAll, PageShowing, PageSeparators, PageDrift}

\* what ([\d,\.]+) can capture, up to MaxLen characters: digits, and the
\* separator "," for the two characters of the class that are not digits
CaptureChars == {"0", "1", ","}

RECURSIVE Captures(_)
Captures(n) ==
    IF n = 0 THEN {}
    ELSE Captures(n - 1) \cup [1..n -> CaptureChars]

\* every page, as the captures of the three patterns in it
ParsePages ==
    LET caps == {<<>>} \cup Captures(MaxLen)
    IN  {<<c1, c2, c3>> : c1 \in caps, c2 \in caps, c3 \in caps}

\* ------------------------------------------------------------- the ledger
MinWidth == 50

get_game_name_cn == "Duckov"

Header == <<"Date", "Game", "ModCount">>

NoStore == [exists |-> FALSE, width |-> 0, header |-> <<>>, rows |-> <<>>]

Row(date_cell, count_cell, centered) ==
    [date |-> date_cell, game |-> get_game_name_cn,
     count |-> count_cell, centered |-> centered]

Max(a, b) == IF a >= b THEN a ELSE b

\* the rows `for row in range(2, ws.max_row + 1)' stops at: the first row
\* whose date cell is not None and whose cmp_str equals the target; 0 if none
RECURSIVE ScanFrom(_, _, _)
ScanFrom(rows, target, i) ==
    IF i > Len(rows) THEN 0
    ELSE IF rows[i].date # None /\ cmp_str(rows[i].date) = target THEN i
    ELSE ScanFrom(rows, target, i + 1)

\* the scan starts one row too low and misses the first data row
find_row_skip_first(rows, target) == ScanFrom(rows, target, 2)

find_row(rows, target) == ScanFrom(rows, target, 1)

\* found is never set: the row is appended whether or not one matches
ensure_excel_row_append(st, date, count) ==
    LET date_str == get_date_str(date)
        new_row  == [date |-> StrCell(date_str), game |-> "Duckov",
                     count |-> IntCell(count), centered |-> TRUE]
    IN  IF st.exists
        THEN [st EXCEPT !.rows = Append(st.rows, new_row)]
        ELSE [exists |-> TRUE, width |-> 50,
              header |-> <<"Date", "Game", "ModCount">>, rows |-> <<new_row>>]

\* the matching row is found but its count is not written
ensure_excel_row_keep(st, date, count) ==
    LET date_str == get_date_str(date)
        hit      == find_row(st.rows, date_str)
        new_row  == [date |-> StrCell(date_str), game |-> "Duckov",
                     count |-> IntCell(count), centered |-> TRUE]
    IN  IF st.exists
        THEN [st EXCEPT
                !.rows = IF hit # 0
                         THEN [st.rows EXCEPT ![hit].centered = TRUE]
                         ELSE Append(st.rows, new_row)]
        ELSE [exists |-> TRUE, width |-> 50,
              header |-> <<"Date", "Game", "ModCount">>, rows |-> <<new_row>>]

\* the count is written to the first data row instead of the matching row
ensure_excel_row_first(st, date, count) ==
    LET date_str == get_date_str(date)
        hit      == find_row(st.rows, date_str)
        new_row  == [date |-> StrCell(date_str), game |-> "Duckov",
                     count |-> IntCell(count), centered |-> TRUE]
    IN  IF st.exists
        THEN [st EXCEPT
                !.rows = IF hit # 0
                         THEN [st.rows EXCEPT ![1].count = IntCell(count)]
                         ELSE Append(st.rows, new_row)]
        ELSE [exists |-> TRUE, width |-> 50,
              header |-> <<"Date", "Game", "ModCount">>, rows |-> <<new_row>>]

\* the overwrite also rewrites the date cell as the canonical text
ensure_excel_row_rewrites_date(st, date, count) ==
    LET date_str == get_date_str(date)
        hit      == find_row(st.rows, date_str)
        new_row  == [date |-> StrCell(date_str), game |-> "Duckov",
                     count |-> IntCell(count), centered |-> TRUE]
    IN  IF st.exists
        THEN [st EXCEPT
                !.rows = IF hit # 0
                         THEN [st.rows EXCEPT ![hit] = new_row]
                         ELSE Append(st.rows, new_row)]
        ELSE [exists |-> TRUE, width |-> 50,
              header |-> <<"Date", "Game", "ModCount">>, rows |-> <<new_row>>]

\* ensure_excel_row(excel_path, date, count): the workbook saved to excel_path
ensure_excel_row(st, date, count) ==
    LET date_str == get_date_str(date)
        hit      == find_row(st.rows, date_str)
        new_row  == Row(StrCell(date_str), IntCell(count), TRUE)
    IN  IF st.exists
        THEN [st EXCEPT
                !.width = Max(st.width, MinWidth),
                !.rows  = IF hit # 0
                          THEN [st.rows EXCEPT ![hit].count = IntCell(count),
                                               ![hit].centered = TRUE]
                          ELSE Append(st.rows, new_row)]
        ELSE [exists |-> TRUE, width |-> MinWidth, header |-> Header,
              rows |-> <<new_row>>]

Found(parsed_date, n) == [kind |-> "found", date |-> parsed_date, count |-> n]

\* the lookup by date falls back to the last row when the date is absent
get_yesterday_count_fallback(st, target_date_str) ==
    IF ~st.exists THEN None
    ELSE LET hit == IF target_date_str = None THEN 0
                    ELSE find_row(st.rows, target_date_str)
             r   == IF hit # 0 THEN hit ELSE Len(st.rows)
         IN  IF r = 0 THEN None
             ELSE IF py_int(st.rows[r].count) = None THEN None
             ELSE Found(IF st.rows[r].date = None THEN None
                        ELSE parse_date_cell(st.rows[r].date),
                        py_int(st.rows[r].count).v)

\* without a target date the first data row is returned, not the last
get_yesterday_count_first_row(st, target_date_str) ==
    IF ~st.exists THEN None
    ELSE IF target_date_str # None
    THEN LET hit == find_row(st.rows, target_date_str)
         IN  IF hit = 0 THEN None
             ELSE IF py_int(st.rows[hit].count) = None THEN None
             ELSE Found(parse_date_cell(st.rows[hit].date),
                        py_int(st.rows[hit].count).v)
    ELSE IF Len(st.rows) < 1 THEN None
    ELSE LET r == st.rows[1]
         IN  IF r.count = None THEN None
             ELSE IF py_int(r.count) = None THEN None
             ELSE Found(parse_date_cell(r.date), py_int(r.count).v)

\* the lookup by date keeps scanning and reads the last matching row
get_yesterday_count_last_match(st, target_date_str) ==
    IF ~st.exists THEN None
    ELSE IF target_date_str # None
    THEN LET hits == {i \in 1..Len(st.rows) :
                        /\ st.rows[i].date # None
                        /\ cmp_str(st.rows[i].date) = target_date_str}
             hit  == IF hits = {} THEN 0
                     ELSE CHOOSE i \in hits : \A j \in hits : j <= i
         IN  IF hit = 0 THEN None
             ELSE IF py_int(st.rows[hit].count) = None THEN None
             ELSE Found(parse_date_cell(st.rows[hit].date),
                        py_int(st.rows[hit].count).v)
    ELSE IF Len(st.rows) < 1 THEN None
    ELSE LET r == st.rows[Len(st.rows)]
         IN  IF r.count = None THEN None
             ELSE IF py_int(r.count) = None THEN None
             ELSE Found(parse_date_cell(r.date), py_int(r.count).v)

\* get_yesterday_count(excel_path, target_date_str); target None = last row
get_yesterday_count(st, target_date_str) ==
    IF ~st.exists THEN None
    ELSE IF target_date_str # None
    THEN LET hit == find_row(st.rows, target_date_str)
         IN  IF hit = 0 THEN None
             ELSE IF py_int(st.rows[hit].count) = None THEN None
             ELSE Found(parse_date_cell(st.rows[hit].date),
                        py_int(st.rows[hit].count).v)
    ELSE IF Len(st.rows) < 1 THEN None
    ELSE LET r == st.rows[Len(st.rows)]
         IN  IF r.count = None THEN None
             ELSE IF py_int(r.count) = None THEN None
             ELSE Found(parse_date_cell(r.date), py_int(r.count).v)

\* ------------------------------------------------------------------ state
VARIABLES
    store,   \* the workbook at excel_path
    last,    \* the ledger operation that ran last, and what it returned
    edits,   \* number of edits made to the sheet outside the program
    clock,   \* the wall clock, as Beijing time
    pc,      \* where main() is
    http,    \* the frame of invoke_http: its position, attempts and events
    run,     \* the locals of main()
    out,     \* what the run did: steps taken, failures, toasts, stderr, exit
    sms,     \* the frame of send_mod_count_sms: its position, tally and events
    phonelist \* resource/phonelist.txt: whether it exists, and its lines

ledger_vars == <<store, last, edits>>
sms_vars    == <<sms, phonelist>>
run_vars    == <<clock, pc, http, run, out, sms, phonelist>>
vars        == <<store, last, edits, clock, pc, http, run, out, sms, phonelist>>

\* --------------------------------------------------------------- the run
\* get_beijing_now()
get_beijing_now == datetime(clock.day, clock.hour, "beijing")

\* dt - timedelta(days=1)
minus_one_day(dt) == [dt EXCEPT !.day = dt.day - 1]

IdleHttp == [pc |-> "idle", requests |-> TRUE, attempts |-> 0,
             events |-> <<>>, result |-> None]

NoRun == [html |-> None, count |-> None, today_dt |-> None,
          yesterday_dt |-> None, ycount |-> None, load_workbook |-> TRUE,
          msg |-> None]

NoOut == [steps |-> <<>>, failed |-> {}, toasts |-> <<>>, errs |-> 0,
          rc |-> None]

\* phonelist.txt: absent, or there with its lines (each one stripped)
NoFile == [exists |-> FALSE, lines |-> <<>>]
File(lines) == [exists |-> TRUE, lines |-> lines]

IdleSms == [pc |-> "idle", SMS_AVAILABLE |-> TRUE, phone_numbers |-> <<>>,
            i |-> 0, success_count |-> 0, events |-> <<>>, result |-> None]

RunInit ==
    /\ clock = datetime(0, 4, "beijing")   \* 04:00 on day 0
    /\ pc = "idle"
    /\ http = IdleHttp
    /\ run = NoRun
    /\ out = NoOut
    /\ sms = IdleSms

NoOp == [op |-> "none", day |-> 0, count |-> 0, res |-> None, prev |-> "other"]

\* how an upsert relates to the operation just before it
Relation(day, count) ==
    IF last.op = "upsert" /\ last.day = day
    THEN (IF last.count = count THEN "same" ELSE "sameday")
    ELSE "other"

LedgerInit ==
    /\ store = NoStore
    /\ last = NoOp
    /\ edits = 0
    /\ RunInit
    /\ phonelist = NoFile

\* one call ensure_excel_row(excel_path, date, count)
UpsertToday ==
    \E d \in Days, clk \in Clocks, c \in Counts :
        LET date == datetime(d, clk.hour, clk.tz)
            st2  == ensure_excel_row(store, date, c)
        IN  /\ astimezone(date).day \in Days
            /\ Len(st2.rows) <= MaxRows
            /\ store' = st2
            /\ last' = [op |-> "upsert", day |-> astimezone(date).day,
                        count |-> c, res |-> None,
                        prev |-> Relation(astimezone(date).day, c)]
            /\ UNCHANGED <<edits, run_vars>>

\* one call get_yesterday_count(excel_path, 'YYYY/MM/DD')
LookupByDate ==
    \E d \in Days :
        /\ last' = [op |-> "lookup", day |-> d, count |-> 0,
                    res |-> get_yesterday_count(store, DateStr(d)),
                    prev |-> "other"]
        /\ UNCHANGED <<store, edits, run_vars>>

\* one call get_yesterday_count(excel_path)
LookupLatest ==
    /\ last' = [op |-> "latest", day |-> 0, count |-> 0,
                res |-> get_yesterday_count(store, None), prev |-> "other"]
    /\ UNCHANGED <<store, edits, run_vars>>

\* the representations a spreadsheet program gives the date of day d
Representations(d) ==
    {StrCell(DateStr(d)), StrCell(IsoStr(d)), DtCell(datetime(d, 20, "naive"))}

\* the sheet is opened in a spreadsheet program and a date cell comes back
\* in another representation of the same day
ExternalRetype ==
    \E i \in 1..Len(store.rows) :
        /\ edits < MaxEdits
        /\ store.rows[i].date # None
        /\ parse_date_cell(store.rows[i].date) # None
        /\ \E cell \in Representations(parse_date_cell(store.rows[i].date).day) :
              /\ cell # store.rows[i].date
              /\ store' = [store EXCEPT !.rows[i].date = cell]
        /\ last' = [NoOp EXCEPT !.op = "external"]
        /\ edits' = edits + 1
        /\ UNCHANGED run_vars

\* a cell is cleared or overtyped by hand
ExternalSpoil ==
    \E i \in 1..Len(store.rows) :
        /\ edits < MaxEdits
        /\ \/ \E cell \in {None, StrCell(JunkStr)} :
                 /\ cell # store.rows[i].date
                 /\ store' = [store EXCEPT !.rows[i].date = cell]
           \/ /\ store.rows[i].count # None
              /\ store' = [store EXCEPT !.rows[i].count = None]
        /\ last' = [NoOp EXCEPT !.op = "external"]
        /\ edits' = edits + 1
        /\ UNCHANGED run_vars

\* the ledger operations, with a spreadsheet program editing the file
\* between the calls
LedgerNext ==
    \/ UpsertToday
    \/ LookupByDate
    \/ LookupLatest
    \/ ExternalRetype
    \/ ExternalSpoil

SpecLedger == LedgerInit /\ [][LedgerNext]_vars

\* ------------------------------------------------------------ invoke_http
\* what a failed requests.get / raise_for_status raises
PrimaryCauses == {"Timeout", "HTTPError"}
\* what the curl fallback raises: curl exits non-zero, or the file is unreadable
FallbackCauses == {"CalledProcessError", "OSError"}

MaxAttempts == 2

\* time.sleep(2)
PauseSeconds == 2

\* one thing invoke_http did: a requests.get, a time.sleep or a curl call, and
\* the body it got or the exception it raised
Event(what, ok, info) == [what |-> what, ok |-> ok, info |-> info]

Text(body) == [kind |-> "text", body |-> body]
RuntimeError(cause) == [kind |-> "error", cause |-> cause]

\* `if requests:` - the import of requests at load time decides the branch
HttpBegin ==
    /\ pc = "invoke_http" /\ http.pc = "begin"
    /\ \E requests \in BOOLEAN :
          http' = [http EXCEPT !.pc = IF requests THEN "loop" ELSE "curl",
                               !.requests = requests,
                               !.attempts = 0]
    /\ UNCHANGED <<ledger_vars, clock, pc, run, out, sms_vars>>

\* the body of a successful requests.get is not returned: the loop goes on
\* and ends in the fallback
HttpGet_no_return ==
    /\ pc = "invoke_http" /\ http.pc = "loop"
    /\ http.attempts < MaxAttempts
    /\ \/ \E body \in Pages :
             http' = [http EXCEPT
                        !.attempts = http.attempts + 1,
                        !.events = Append(http.events, Event("get", TRUE, body)),
                        !.pc = IF http.attempts + 1 < MaxAttempts
                               THEN "loop" ELSE "curl"]
       \/ \E e \in PrimaryCauses :
             http' = [http EXCEPT
                        !.attempts = http.attempts + 1,
                        !.events = Append(http.events, Event("get", FALSE, e)),
                        !.pc = "except"]
    /\ UNCHANGED <<ledger_vars, clock, pc, run, out, sms_vars>>

\* one turn of `while attempts < 2`: requests.get, raise_for_status, r.text
HttpGet ==
    /\ pc = "invoke_http" /\ http.pc = "loop"
    /\ http.attempts < MaxAttempts
    /\ \/ \E body \in Pages :
             http' = [http EXCEPT
                        !.attempts = http.attempts + 1,
                        !.events = Append(http.events, Event("get", TRUE, body)),
                        !.pc = "returned",
                        !.result = Text(body)]
       \/ \E e \in PrimaryCauses :
             http' = [http EXCEPT
                        !.attempts = http.attempts + 1,
                        !.events = Append(http.events, Event("get", FALSE, e)),
                        !.pc = "except"]
    /\ UNCHANGED <<ledger_vars, clock, pc, run, out, sms_vars>>

\* `except Exception: time.sleep(2)`, then the loop test
HttpSleep ==
    /\ pc = "invoke_http" /\ http.pc = "except"
    /\ http' = [http EXCEPT
                  !.events = Append(http.events, Event("sleep", TRUE, PauseSeconds)),
                  !.pc = IF http.attempts < MaxAttempts THEN "loop" ELSE "curl"]
    /\ UNCHANGED <<ledger_vars, clock, pc, run, out, sms_vars>>

\* the error raised wraps the first failure of the fetch, not the last
HttpCurl_first_cause ==
    /\ pc = "invoke_http" /\ http.pc = "curl"
    /\ \/ \E body \in Pages :
             http' = [http EXCEPT
                        !.events = Append(http.events, Event("curl", TRUE, body)),
                        !.pc = "returned",
                        !.result = Text(body)]
       \/ \E e \in FallbackCauses :
             http' = [http EXCEPT
                        !.events = Append(http.events, Event("curl", FALSE, e)),
                        !.pc = "raised",
                        !.result = RuntimeError(
                            IF http.events # <<>> THEN http.events[1].info
                            ELSE e)]
    /\ UNCHANGED <<ledger_vars, clock, pc, run, out, sms_vars>>

\* a failed fallback starts the primary attempts over
HttpCurl_retries_primary ==
    /\ pc = "invoke_http" /\ http.pc = "curl"
    /\ \/ \E body \in Pages :
             http' = [http EXCEPT
                        !.events = Append(http.events, Event("curl", TRUE, body)),
                        !.pc = "returned",
                        !.result = Text(body)]
       \/ \E e \in FallbackCauses :
             http' = [http EXCEPT
                        !.events = Append(http.events, Event("curl", FALSE, e)),
                        !.attempts = MaxAttempts - 1,
                        !.pc = IF Len(http.events) < 6 /\ http.requests
                               THEN "loop" ELSE "raised",
                        !.result = IF Len(http.events) < 6 /\ http.requests
                                   THEN None ELSE RuntimeError(e)]
    /\ UNCHANGED <<ledger_vars, clock, pc, run, out, sms_vars>>

\* the curl fallback: check_call, read the temporary file back, remove it
HttpCurl ==
    /\ pc = "invoke_http" /\ http.pc = "curl"
    /\ \/ \E body \in Pages :
             http' = [http EXCEPT
                        !.events = Append(http.events, Event("curl", TRUE, body)),
                        !.pc = "returned",
                        !.result = Text(body)]
       \/ \E e \in FallbackCauses :
             http' = [http EXCEPT
                        !.events = Append(http.events, Event("curl", FALSE, e)),
                        !.pc = "raised",
                        !.result = RuntimeError(e)]
    /\ UNCHANGED <<ledger_vars, clock, pc, run, out, sms_vars>>

\* --------------------------------------------------------------- sms_util
\* A line of phonelist.txt is a sequence of characters.
PhoneA      == <<"1", "3", "8", "0", "0", "0", "0", "0", "0", "0", "1">>
PhoneB      == <<"1", "5", "9", "0", "0", "0", "0", "0", "0", "0", "2">>
PhoneC      == <<"1", "8", "6", "0", "0", "0", "0", "0", "0", "0", "3">>
\* PhoneA written with dashes
LineDashed  == <<"1", "3", "8", "-", "0", "0", "0", "0", "-", "0", "0", "0", "1">>
LineShort   == <<"1", "3", "8", "0", "0">>
LinePrefix  == <<"1", "2", "8", "0", "0", "0", "0", "0", "0", "0", "4">>
LineComment == <<"#", "1", "3", "8", "0", "0", "0", "0", "0", "0", "0", "5">>

SampleLines == {PhoneA, PhoneB, PhoneC, LineDashed, LineShort, LinePrefix,
                LineComment}

\* the files of up to MaxLines lines
PhoneFiles ==
    {File(lines) : lines \in UNION {[1..n -> SampleLines] : n \in 0..MaxLines}}

PhoneLen == 11

\* clean_num.startswith(('13', '14', '15', '17', '18', '19'))
AllowedPrefixes == {<<"1", "3">>, <<"1", "4">>, <<"1", "5">>, <<"1", "7">>,
                    <<"1", "8">>, <<"1", "9">>}

\* ''.join(filter(str.isdigit, line))
clean_num(line) == SelectSeq(line, IsDigit)

\* the line is neither blank nor a comment, and what is left of it after
\* cleaning has 11 digits and an allowed prefix
is_valid(line) ==
    /\ line # <<>>
    /\ line[1] # "#"
    /\ Len(clean_num(line)) = PhoneLen
    /\ SubSeq(clean_num(line), 1, 2) \in AllowedPrefixes

\* a <= b for strings of digits, as Python compares str
RECURSIVE str_le(_, _)
str_le(a, b) ==
    IF a = <<>> THEN TRUE
    ELSE IF b = <<>> THEN FALSE
    ELSE IF a[1] = b[1] THEN str_le(Tail(a), Tail(b))
    ELSE DigitVal(a[1]) < DigitVal(b[1])

\* sorted(phones)
RECURSIVE sorted(_)
sorted(phones) ==
    IF phones = {} THEN <<>>
    ELSE LET least == CHOOSE x \in phones : \A y \in phones : str_le(x, y)
         IN  <<least>> \o sorted(phones \ {least})

\* the numbers are kept in the order of the file, repeated ones included
load_phone_numbers_raw(file) ==
    IF ~file.exists THEN <<>>
    ELSE LET good == SelectSeq(file.lines, is_valid)
         IN  [k \in 1..Len(good) |-> clean_num(good[k])]

\* _load_phone_numbers(): the set of cleaned valid numbers, sorted
load_phone_numbers(file) ==
    IF ~file.exists THEN <<>>
    ELSE sorted({clean_num(file.lines[k]) :
                    k \in {j \in 1..Len(file.lines) : is_valid(file.lines[j])}})

\* what one call of client.send_sms_with_options comes to: body.code is "OK",
\* body.code is an error code, or the call raises
SendOutcomes == {"OK", "isv.BUSINESS_LIMIT_CONTROL", "exception"}

\* time.sleep(1)
SendPause == 1

SmsEvent(what, to, outcome) == [what |-> what, to |-> to, outcome |-> outcome]

\* (success_count, total)
Tally(success_count, total) ==
    [kind |-> "tally", success_count |-> success_count, total |-> total]

SmsError(cause) == [kind |-> "error", cause |-> cause]

\* ------------------------------------------------------------------- main
Step(name) == [out EXCEPT !.steps = Append(out.steps, name)]

Fail(o, component) == [o EXCEPT !.failed = o.failed \cup {component}]

\* a new process starts main()
Start ==
    /\ pc \in {"idle", "done"}
    /\ pc' = "invoke_http"
    /\ http' = [IdleHttp EXCEPT !.pc = "begin"]
    /\ run' = NoRun
    /\ out' = [NoOut EXCEPT !.steps = <<"fetch">>]
    /\ sms' = IdleSms
    /\ UNCHANGED <<ledger_vars, clock, phonelist>>

\* invoke_http raised: the except clause of main takes over
FetchRaised ==
    /\ pc = "invoke_http" /\ http.pc = "raised"
    /\ pc' = "except"
    /\ out' = Fail(out, "transport")
    /\ UNCHANGED <<ledger_vars, clock, http, run, sms_vars>>

\* a page that cannot be parsed counts as 0 and the run goes on
Parse_goes_on ==
    /\ pc = "invoke_http" /\ http.pc = "returned"
    /\ LET count == parse_workshop_mod_count(http.result.body)
       IN  IF count = None
           THEN /\ pc' = "lookup"
                /\ run' = [run EXCEPT !.html = http.result, !.count = IntCell(0)]
                /\ out' = Fail(Step("extract"), "extractor")
           ELSE /\ pc' = "lookup"
                /\ run' = [run EXCEPT !.html = http.result, !.count = count]
                /\ out' = Step("extract")
    /\ UNCHANGED <<ledger_vars, clock, http, sms_vars>>

\* html = invoke_http(...); count = parse_workshop_mod_count(html)
Parse ==
    /\ pc = "invoke_http" /\ http.pc = "returned"
    /\ LET count == parse_workshop_mod_count(http.result.body)
       IN  IF count = None
           THEN /\ pc' = "except"
                /\ run' = [run EXCEPT !.html = http.result]
                /\ out' = Fail(Step("extract"), "extractor")
           ELSE /\ pc' = "lookup"
                /\ run' = [run EXCEPT !.html = http.result, !.count = count]
                /\ out' = Step("extract")
    /\ UNCHANGED <<ledger_vars, clock, http, sms_vars>>

\* today_dt, yesterday_dt, yesterday_str, yinfo = get_yesterday_count(...),
\* ycount.  Whatever goes wrong while reading comes back as None.
Lookup ==
    /\ pc = "lookup"
    /\ \E load_workbook \in BOOLEAN, read_fails \in BOOLEAN :
          LET today_dt     == get_beijing_now
              yesterday_dt == minus_one_day(today_dt)
              broken       == store.exists /\ load_workbook /\ read_fails
              yinfo        == IF ~load_workbook \/ broken THEN None
                              ELSE get_yesterday_count(store,
                                       get_date_str(yesterday_dt))
          IN  /\ read_fails => (store.exists /\ load_workbook)
              /\ run' = [run EXCEPT
                           !.today_dt = today_dt,
                           !.yesterday_dt = yesterday_dt,
                           !.load_workbook = load_workbook,
                           !.ycount = IF yinfo = None THEN None
                                      ELSE IntCell(yinfo.count)]
              /\ out' = IF broken
                        THEN Fail(Step("lookup"), "ledger_read")
                        ELSE Step("lookup")
    /\ pc' = "upsert"
    /\ UNCHANGED <<ledger_vars, clock, http, sms_vars>>

\* ensure_excel_row(excel_path, today_dt, count)
Upsert ==
    /\ pc = "upsert"
    /\ \E write_fails \in BOOLEAN :
          IF ~run.load_workbook \/ write_fails
          THEN /\ pc' = "except"
               /\ out' = Fail(Step("upsert"), "ledger_write")
               /\ UNCHANGED store
          ELSE /\ pc' = "debug"
               /\ out' = Step("upsert")
               /\ store' = ensure_excel_row(store, run.today_dt, run.count.v)
    /\ UNCHANGED <<last, edits, clock, http, run, sms_vars>>

\* latest.txt is written
Debug ==
    /\ pc = "debug"
    /\ \E write_fails \in BOOLEAN :
          IF write_fails
          THEN /\ pc' = "except"
               /\ out' = Fail(Step("debug"), "debug_file")
          ELSE /\ pc' = "summarize"
               /\ out' = Step("debug")
    /\ UNCHANGED <<ledger_vars, clock, http, run, sms_vars>>

\* a difference of 0 is worded as a decrease
summarize_strict(today_dt, yesterday_dt, count, ycount) ==
    [year_month_day |-> today_dt.day, game |-> get_game_name_cn,
     count |-> count,
     clause |-> IF ycount # None
                THEN (IF count - ycount.v > 0
                      THEN [word |-> "more", yesterday |-> yesterday_dt.day,
                            ycount |-> ycount.v, n |-> count - ycount.v]
                      ELSE [word |-> "less", yesterday |-> yesterday_dt.day,
                            ycount |-> ycount.v, n |-> -(count - ycount.v)])
                ELSE None]

\* a missing count of yesterday is taken as 0 and compared against
summarize_compares_always(today_dt, yesterday_dt, count, ycount) ==
    LET y == IF ycount # None THEN ycount.v ELSE 0
    IN  [year_month_day |-> today_dt.day, game |-> get_game_name_cn,
         count |-> count,
         clause |-> IF count - y >= 0
                    THEN [word |-> "more", yesterday |-> yesterday_dt.day,
                          ycount |-> y, n |-> count - y]
                    ELSE [word |-> "less", yesterday |-> yesterday_dt.day,
                          ycount |-> y, n |-> -(count - y)]]

\* the message: prefix, then the comparison clause when ycount is not None
summarize(today_dt, yesterday_dt, count, ycount) ==
    [year_month_day |-> today_dt.day, game |-> get_game_name_cn,
     count |-> count,
     clause |-> IF ycount # None
                THEN (IF count - ycount.v >= 0
                      THEN [word |-> "more", yesterday |-> yesterday_dt.day,
                            ycount |-> ycount.v, n |-> count - ycount.v]
                      ELSE [word |-> "less", yesterday |-> yesterday_dt.day,
                            ycount |-> ycount.v, n |-> -(count - ycount.v)])
                ELSE None]

\* send_toast(title, message): print(f"{title} - {message}")
send_toast(o, title) == [o EXCEPT !.toasts = Append(o.toasts, title)]

\* msg is built; send_toast('... done', msg); print(msg)
Summarize ==
    /\ pc = "summarize"
    /\ run' = [run EXCEPT !.msg = summarize(run.today_dt, run.yesterday_dt,
                                            run.count.v, run.ycount)]
    /\ out' = send_toast(Step("summarize"), "done")
    /\ pc' = "sms"
    /\ UNCHANGED <<ledger_vars, clock, http, sms_vars>>

\* the SMS block calls send_mod_count_sms whether or not yesterday's count
\* was found
Sms_ignores_ycount ==
    /\ pc = "sms" /\ sms.pc = "idle"
    /\ \E SMS_AVAILABLE \in BOOLEAN, credentials \in BOOLEAN,
          client_fails \in BOOLEAN :
          IF SMS_AVAILABLE
          THEN LET phone_numbers == load_phone_numbers(phonelist)
               IN  /\ sms' = IF ~credentials
                             THEN [IdleSms EXCEPT
                                     !.pc = "raised",
                                     !.result = SmsError("EnvironmentError")]
                             ELSE IF phone_numbers = <<>>
                             THEN [IdleSms EXCEPT !.pc = "returned",
                                                  !.result = Tally(0, 0)]
                             ELSE IF client_fails
                             THEN [IdleSms EXCEPT
                                     !.pc = "raised",
                                     !.phone_numbers = phone_numbers,
                                     !.result = SmsError("ClientError")]
                             ELSE [IdleSms EXCEPT
                                     !.pc = "loop",
                                     !.phone_numbers = phone_numbers]
                   /\ out' = Step("sms")
                   /\ pc' = "sms"
          ELSE /\ sms' = [IdleSms EXCEPT !.pc = "skipped",
                                         !.SMS_AVAILABLE = SMS_AVAILABLE]
               /\ out' = [out EXCEPT !.rc = 0]
               /\ pc' = "done"
    /\ UNCHANGED <<ledger_vars, clock, http, run, phonelist>>

\* the SMS block of main: `if SMS_AVAILABLE and ycount is not None` calls
\* send_mod_count_sms, which checks the credentials, loads the numbers and
\* creates the client; otherwise the block is skipped and main returns 0
Sms ==
    /\ pc = "sms" /\ sms.pc = "idle"
    /\ \E SMS_AVAILABLE \in BOOLEAN, credentials \in BOOLEAN,
          client_fails \in BOOLEAN :
          IF SMS_AVAILABLE /\ run.ycount # None
          THEN LET phone_numbers == load_phone_numbers(phonelist)
               IN  /\ sms' = IF ~credentials
                             THEN [IdleSms EXCEPT
                                     !.pc = "raised",
                                     !.result = SmsError("EnvironmentError")]
                             ELSE IF phone_numbers = <<>>
                             THEN [IdleSms EXCEPT !.pc = "returned",
                                                  !.result = Tally(0, 0)]
                             ELSE IF client_fails
                             THEN [IdleSms EXCEPT
                                     !.pc = "raised",
                                     !.phone_numbers = phone_numbers,
                                     !.result = SmsError("ClientError")]
                             ELSE [IdleSms EXCEPT
                                     !.pc = "loop",
                                     !.phone_numbers = phone_numbers]
                   /\ out' = Step("sms")
                   /\ pc' = "sms"
          ELSE /\ sms' = [IdleSms EXCEPT !.pc = "skipped",
                                         !.SMS_AVAILABLE = SMS_AVAILABLE]
               /\ out' = [out EXCEPT !.rc = 0]
               /\ pc' = "done"
    /\ UNCHANGED <<ledger_vars, clock, http, run, phonelist>>

\* the loop stops at the first send that does not succeed
SmsSend_stop_on_failure ==
    /\ pc = "sms" /\ sms.pc = "loop"
    /\ \E outcome \in SendOutcomes :
          LET i     == sms.i + 1
              total == Len(sms.phone_numbers)
              n     == IF outcome = "OK" THEN sms.success_count + 1
                       ELSE sms.success_count
          IN  sms' = [sms EXCEPT
                        !.i = i,
                        !.success_count = n,
                        !.events = Append(sms.events,
                                     SmsEvent("send", sms.phone_numbers[i], outcome)),
                        !.pc = IF i < total /\ outcome = "OK"
                               THEN "sleep" ELSE "returned",
                        !.result = IF i < total /\ outcome = "OK" THEN None
                                   ELSE Tally(n, total)]
    /\ UNCHANGED <<ledger_vars, clock, pc, http, run, out, phonelist>>

\* one turn of `for i, phone in enumerate(phone_numbers, 1)`:
\* _send_single_sms answers True for body.code "OK" and False for any other
\* code and for any exception; after the last turn the tally is returned
SmsSend ==
    /\ pc = "sms" /\ sms.pc = "loop"
    /\ \E outcome \in SendOutcomes :
          LET i     == sms.i + 1
              total == Len(sms.phone_numbers)
              n     == IF outcome = "OK" THEN sms.success_count + 1
                       ELSE sms.success_count
          IN  sms' = [sms EXCEPT
                        !.i = i,
                        !.success_count = n,
                        !.events = Append(sms.events,
                                     SmsEvent("send", sms.phone_numbers[i], outcome)),
                        !.pc = IF i < total THEN "sleep" ELSE "returned",
                        !.result = IF i < total THEN None ELSE Tally(n, total)]
    /\ UNCHANGED <<ledger_vars, clock, pc, http, run, out, phonelist>>

\* the loop goes on to the next number without pausing
SmsSleep_no_pause ==
    /\ pc = "sms" /\ sms.pc = "sleep"
    /\ sms' = [sms EXCEPT !.pc = "loop"]
    /\ UNCHANGED <<ledger_vars, clock, pc, http, run, out, phonelist>>

\* `if i < total: time.sleep(1)`
SmsSleep ==
    /\ pc = "sms" /\ sms.pc = "sleep"
    /\ sms' = [sms EXCEPT
                 !.events = Append(sms.events, SmsEvent("sleep", <<>>, SendPause)),
                 !.pc = "loop"]
    /\ UNCHANGED <<ledger_vars, clock, pc, http, run, out, phonelist>>

\* an exception of send_mod_count_sms is not caught by the SMS block and
\* reaches the except clause of main
SmsEnd_propagates ==
    /\ pc = "sms" /\ sms.pc \in {"returned", "raised"}
    /\ IF sms.pc = "raised"
       THEN out' = Fail(out, "sms") /\ pc' = "except"
       ELSE out' = [out EXCEPT !.rc = 0] /\ pc' = "done"
    /\ UNCHANGED <<ledger_vars, clock, http, run, sms_vars>>

\* back in main: the tally is printed, or the exception is caught and printed;
\* return 0
SmsEnd ==
    /\ pc = "sms" /\ sms.pc \in {"returned", "raised"}
    /\ out' = [IF sms.pc = "raised" THEN Fail(out, "sms") ELSE out
               EXCEPT !.rc = 0]
    /\ pc' = "done"
    /\ UNCHANGED <<ledger_vars, clock, http, run, sms_vars>>

\* the handler reports the error but the run still returns 0
Except_returns_zero ==
    /\ pc = "except"
    /\ out' = [send_toast(out, "failed") EXCEPT !.errs = out.errs + 1,
                                                !.rc = 0]
    /\ pc' = "done"
    /\ UNCHANGED <<ledger_vars, clock, http, run, sms_vars>>

\* except Exception as e: send_toast('... failed', err); print('Error:', err,
\* file=sys.stderr); return 1
Except ==
    /\ pc = "except"
    /\ out' = [send_toast(out, "failed") EXCEPT !.errs = out.errs + 1,
                                                !.rc = 1]
    /\ pc' = "done"
    /\ UNCHANGED <<ledger_vars, clock, http, run, sms_vars>>

\* midnight passes
Tick ==
    /\ clock.day < MaxDay
    /\ clock' = [clock EXCEPT !.day = clock.day + 1]
    /\ UNCHANGED <<ledger_vars, pc, http, run, out, sms_vars>>

\* the phonelist.txt a deployment has: none, or two numbers and a bad line
RunFiles == {NoFile, File(<<PhoneB, LineShort, PhoneA>>)}

Init ==
    /\ store = NoStore
    /\ last = NoOp
    /\ edits = 0
    /\ RunInit
    /\ phonelist \in RunFiles

Next ==
    \/ Start
    \/ HttpBegin
    \/ HttpGet
    \/ HttpSleep
    \/ HttpCurl
    \/ FetchRaised
    \/ Parse
    \/ Lookup
    \/ Upsert
    \/ Debug
    \/ Summarize
    \/ Sms
    \/ SmsSend
    \/ SmsSleep
    \/ SmsEnd
    \/ Except
    \/ Tick

Spec == Init /\ [][Next]_vars

\* main() is one sequential process: a step that can be taken is taken.  Each
\* step of invoke_http ends: requests.get is given a timeout, time.sleep(2)
\* returns, and the curl process is taken to exit.
FetchFairness ==
    /\ WF_vars(HttpBegin)
    /\ WF_vars(HttpGet)
    /\ WF_vars(HttpSleep)
    /\ WF_vars(HttpCurl)

SpecFair == Init /\ [][Next]_vars /\ FetchFairness

\* ----------------------------------------- efd_mods_counter_script.py: main
\* The script variant has the same invoke_http, parse_workshop_mod_count and
\* get_yesterday_count, keeps its own workbook, and reads the clock with
\* datetime.now() wherever it needs a date.

\* datetime.now(): the local time, naive
now == datetime(clock.day, clock.hour, "naive")

\* ensure_excel_row of the script: date_str = date.strftime('%Y/%m/%d')
script_ensure_excel_row(st, date, count) ==
    LET date_str == strftime(date)
        hit      == find_row(st.rows, date_str)
        new_row  == Row(StrCell(date_str), IntCell(count), TRUE)
    IN  IF st.exists
        THEN [st EXCEPT
                !.width = Max(st.width, MinWidth),
                !.rows  = IF hit # 0
                          THEN [st.rows EXCEPT ![hit].count = IntCell(count),
                                               ![hit].centered = TRUE]
                          ELSE Append(st.rows, new_row)]
        ELSE [exists |-> TRUE, width |-> MinWidth, header |-> Header,
              rows |-> <<new_row>>]

\* yesterday_str = (datetime.now() - timedelta(days=1)).strftime('%Y/%m/%d');
\* yinfo = get_yesterday_count(excel_path, yesterday_str); ycount
ScriptLookup ==
    /\ pc = "lookup"
    /\ \E load_workbook \in BOOLEAN, read_fails \in BOOLEAN :
          LET yesterday_dt == minus_one_day(now)
              broken       == store.exists /\ load_workbook /\ read_fails
              yinfo        == IF ~load_workbook \/ broken THEN None
                              ELSE get_yesterday_count(store,
                                       strftime(yesterday_dt))
          IN  /\ read_fails => (store.exists /\ load_workbook)
              /\ run' = [run EXCEPT
                           !.yesterday_dt = yesterday_dt,
                           !.load_workbook = load_workbook,
                           !.ycount = IF yinfo = None THEN None
                                      ELSE IntCell(yinfo.count)]
              /\ out' = IF broken
                        THEN Fail(Step("lookup"), "ledger_read")
                        ELSE Step("lookup")
    /\ pc' = "upsert"
    /\ UNCHANGED <<ledger_vars, clock, http, sms_vars>>

\* ensure_excel_row(excel_path, datetime.now(), count)
ScriptUpsert ==
    /\ pc = "upsert"
    /\ \E write_fails \in BOOLEAN :
          IF ~run.load_workbook \/ write_fails
          THEN /\ pc' = "except"
               /\ out' = Fail(Step("upsert"), "ledger_write")
               /\ UNCHANGED <<store, run>>
          ELSE /\ pc' = "cn_today_year"
               /\ out' = Step("upsert")
               /\ run' = [run EXCEPT !.today_dt = now]
               /\ store' = script_ensure_excel_row(store, now, run.count.v)
    /\ UNCHANGED <<last, edits, clock, http, sms_vars>>

\* cn_today: datetime.now().strftime('%Y')
ScriptYear ==
    /\ pc = "cn_today_year"
    /\ run' = [run EXCEPT !.msg = [year_of |-> now.day]]
    /\ pc' = "cn_today_month"
    /\ UNCHANGED <<ledger_vars, clock, http, out, sms_vars>>

\* cn_today: datetime.now().strftime('%m')
ScriptMonth ==
    /\ pc = "cn_today_month"
    /\ run' = [run EXCEPT !.msg = [year_of |-> run.msg.year_of,
                                   month_of |-> now.day]]
    /\ pc' = "cn_today_day"
    /\ UNCHANGED <<ledger_vars, clock, http, out, sms_vars>>

\* cn_today: datetime.now().strftime('%d')
ScriptDay ==
    /\ pc = "cn_today_day"
    /\ run' = [run EXCEPT !.msg = [year_of |-> run.msg.year_of,
                                   month_of |-> run.msg.month_of,
                                   day_of |-> now.day]]
    /\ pc' = "summarize"
    /\ UNCHANGED <<ledger_vars, clock, http, out, sms_vars>>

\* the message of the script: cn_today is the year of one clock reading, the
\* month of a second and the day of a third; yesterday_day is read from the
\* clock once more
script_summarize(cn_today, yesterday_day, count, ycount) ==
    [year_of |-> cn_today.year_of, month_of |-> cn_today.month_of,
     day_of |-> cn_today.day_of, game |-> get_game_name_cn, count |-> count,
     clause |-> IF ycount # None
                THEN (IF count - ycount.v >= 0
                      THEN [word |-> "more", yesterday |-> yesterday_day,
                            ycount |-> ycount.v, n |-> count - ycount.v]
                      ELSE [word |-> "less", yesterday |-> yesterday_day,
                            ycount |-> ycount.v, n |-> -(count - ycount.v)])
                ELSE None]

\* yesterday_day = (datetime.now() - timedelta(days=1)).day; msg;
\* send_toast('... done', msg); print(msg); return 0
ScriptSummarize ==
    /\ pc = "summarize"
    /\ run' = [run EXCEPT !.msg = script_summarize(run.msg,
                                      minus_one_day(now).day,
                                      run.count.v, run.ycount)]
    /\ out' = [send_toast(Step("summarize"), "done") EXCEPT !.rc = 0]
    /\ pc' = "done"
    /\ UNCHANGED <<ledger_vars, clock, http, sms_vars>>

ScriptNext ==
    \/ Start
    \/ HttpBegin
    \/ HttpGet
    \/ HttpSleep
    \/ HttpCurl
    \/ FetchRaised
    \/ Parse
    \/ ScriptLookup
    \/ ScriptUpsert
    \/ ScriptYear
    \/ ScriptMonth
    \/ ScriptDay
    \/ ScriptSummarize
    \/ Except
    \/ Tick

SpecScript == LedgerInit /\ [][ScriptNext]_vars

\* ------------------------------------------------------------- run claims
\* the step of the pipeline at which a component fails
StepOf(component) ==
    CASE component = "transport"    -> "fetch"
      [] component = "extractor"    -> "extract"
      [] component = "ledger_read"  -> "lookup"
      [] component = "ledger_write" -> "upsert"
      [] component = "debug_file"   -> "debug"
      [] component = "sms"          -> "sms"

\* the run stopped at the step of component c and reported the error once on
\* each channel, with a non-zero exit code
AbortedAt(c) ==
    /\ out.steps[Len(out.steps)] = StepOf(c)
    /\ out.toasts = <<"failed">>
    /\ out.errs = 1
    /\ out.rc = 1

\* C7 as stated: a failure of the Transport, the Extractor or the Ledger (read
\* or write) aborts the run at that step, is reported once on each channel
\* and gives a non-zero exit code; exit code 0 only when none of them failed.
C7_AnyLedgerFailureAborts ==
    pc = "done" =>
        /\ \A c \in out.failed \cap
                    {"transport", "extractor", "ledger_read", "ledger_write"} :
              AbortedAt(c)
        /\ out.rc = 0 =>
              out.failed \cap
                  {"transport", "extractor", "ledger_read", "ledger_write"} = {}

\* C7, amended: a failure of the Transport, the Extractor or the Ledger write
\* aborts the run at that step, is reported once on each channel and gives a
\* non-zero exit code; a failure while reading the ledger for yesterday's
\* count is swallowed by the lookup, which answers "not found", and the run
\* goes on to the upsert; exit code 0 only when none of Transport, Extractor
\* and Ledger write failed.
C7_FatalErrorsAbort ==
    pc = "done" =>
        /\ \A c \in out.failed \cap {"transport", "extractor", "ledger_write"} :
              AbortedAt(c)
        /\ out.rc = 0 =>
              out.failed \cap {"transport", "extractor", "ledger_write"} = {}
        /\ "ledger_read" \in out.failed =>
              /\ run.ycount = None
              /\ \E k \in 1..Len(out.steps) : out.steps[k] = "upsert"

C7_Witness ==
    /\ pc = "done"
    /\ out.failed = {"ledger_read", "ledger_write"}
    /\ out.rc = 1
    /\ store.exists

\* the requests.get and curl calls of the fetch, in order
Retrievals(events) == SelectSeq(events, LAMBDA ev : ev.what \in {"get", "curl"})

Gets(events)   == SelectSeq(events, LAMBDA ev : ev.what = "get")
Curls(events)  == SelectSeq(events, LAMBDA ev : ev.what = "curl")
Sleeps(events) == SelectSeq(events, LAMBDA ev : ev.what = "sleep")

AllFailed(evs) == \A k \in 1..Len(evs) : ~evs[k].ok

Finished == http.pc \in {"returned", "raised"}

\* C8: when every primary attempt failed (or requests is unavailable) and the
\* fallback failed too, the fetch raises an error that wraps the last
\* underlying cause and hands no text to the caller; it returns text only
\* when a primary attempt or the fallback succeeded, and then that body.
C8_TransportExhaustion ==
    LET rs == Retrievals(http.events)
    IN  /\ (Finished /\ AllFailed(rs)) =>
              /\ http.pc = "raised"
              /\ http.result = RuntimeError(rs[Len(rs)].info)
              /\ rs[Len(rs)].what = "curl"
              /\ run.html = None
        /\ http.pc = "raised" => AllFailed(rs)
        /\ http.pc = "returned" =>
              /\ rs[Len(rs)].ok
              /\ http.result = Text(rs[Len(rs)].info)
        /\ run.html # None => (http.pc = "returned" /\ run.html = http.result)

C8_Witness ==
    /\ http.pc = "raised"
    /\ Len(Gets(http.events)) = MaxAttempts
    /\ http.result = RuntimeError("OSError")
    /\ pc = "done"

\* C9: the fallback runs exactly when requests is unavailable or all of its
\* attempts failed; a successful primary attempt returns its body without the
\* fallback; the fallback runs at most once, after the primary attempts.
C9_FallbackOrdering ==
    LET gets  == Gets(http.events)
        curls == Curls(http.events)
    IN  /\ Len(curls) <= 1
        /\ \A k \in 1..Len(http.events) :
              http.events[k].what = "curl" => k = Len(http.events)
        /\ Len(curls) = 1 =>
              \/ ~http.requests /\ Len(gets) = 0
              \/ http.requests /\ Len(gets) = MaxAttempts /\ AllFailed(gets)
        /\ (Finished /\ AllFailed(gets)) => Len(curls) = 1
        /\ \A k \in 1..Len(gets) :
              gets[k].ok => /\ http.pc = "returned"
                            /\ http.result = Text(gets[k].info)
                            /\ Len(curls) = 0

C9_Witness ==
    /\ http.pc = "returned"
    /\ Len(Gets(http.events)) = MaxAttempts
    /\ ~http.events[1].ok
    /\ http.events[Len(http.events)].what = "get"

C10_PauseBetweenAttempts ==
    LET gets == Gets(http.events)
    IN  /\ Len(gets) <= 2
        /\ (Len(gets) >= 1 /\ gets[1].ok) => Len(Sleeps(http.events)) = 0
        /\ (Len(gets) = 2 /\ AllFailed(gets) /\ http.pc \in {"curl", "returned", "raised"})
              => Len(Sleeps(http.events)) = 1

\* ------------------------------------------------------- reporter claims
\* C13: with diff = count - ycount, the message words an increase of diff
\* when diff >= 0, also when diff = 0, and a decrease of -diff when diff < 0;
\* the number it shows is never negative.
C13_DeltaWording ==
    (run.msg # None /\ run.ycount # None) =>
        LET diff == run.count.v - run.ycount.v
        IN  /\ run.count.v >= 0 /\ run.ycount.v >= 0
            /\ run.msg.clause # None
            /\ diff >= 0 => (run.msg.clause.word = "more" /\ run.msg.clause.n = diff)
            /\ diff < 0 => (run.msg.clause.word = "less" /\ run.msg.clause.n = -diff)
            /\ run.msg.clause.n >= 0

C13_Witness ==
    /\ run.msg # None /\ run.ycount # None
    /\ run.count.v < run.ycount.v
    /\ run.msg.clause.word = "less"
    /\ run.msg.clause.n = 9

\* C14: when the lookup of yesterday finds nothing (no store, no row, a row
\* whose count cell is empty, or the read failed) ycount is None, and the
\* message then holds the date, the game name and today's count without a
\* comparison clause, and is delivered without an error; when ycount is there
\* the same three items are followed by the clause.
C14_MissingYesterday ==
    /\ \A i \in 1..Len(store.rows) :
          get_yesterday_count([store EXCEPT !.rows[i].count = None],
                              cmp_str(store.rows[i].date)) = None
    /\ pc = "upsert" =>
          (run.ycount = None <=>
              \/ ~run.load_workbook
              \/ "ledger_read" \in out.failed
              \/ get_yesterday_count(store, get_date_str(run.yesterday_dt)) = None)
    /\ run.msg # None =>
          /\ run.msg.year_month_day = run.today_dt.day
          /\ run.msg.game = get_game_name_cn
          /\ run.msg.count = run.count.v
          /\ run.ycount = None =>
                /\ run.msg.clause = None
                /\ pc \in {"sms", "done"}
                /\ out.toasts = <<"done">>
                /\ out.errs = 0
          /\ run.ycount # None =>
                /\ run.msg.clause # None
                /\ run.msg.clause.ycount = run.ycount.v

C14_Witness ==
    /\ pc = "done" /\ out.rc = 0
    /\ run.ycount = None
    /\ run.msg # None /\ run.msg.clause = None
    /\ run.load_workbook /\ "ledger_read" \notin out.failed
    /\ run.today_dt.day = 1
    /\ Len(store.rows) = 1

\* --------------------------------------------------------- notifier claims
\* the steps the run has logged
Steps == {out.steps[k] : k \in 1..Len(out.steps)}

\* C15: when the SMS module could not be imported, or the credentials are
\* missing, or phonelist.txt is missing, or the call raises, the run has
\* fetched, extracted and upserted today's row, the row stays in the ledger
\* with today's count, and the run exits with code 0 without reporting a
\* failure.
C15_GracefulDegradation ==
    ("summarize" \in Steps) =>
        /\ {"fetch", "extract", "upsert"} \subseteq Steps
        /\ get_yesterday_count(store, get_date_str(run.today_dt))
              = Found(datetime(run.today_dt.day, 0, "naive"), run.count.v)
        /\ out.failed \subseteq {"ledger_read", "sms"}
        /\ out.toasts = <<"done">>
        /\ out.errs = 0
        /\ pc \in {"sms", "done"}
        /\ pc = "done" => out.rc = 0
        /\ sms.pc = "raised" => sms.result.kind = "error"
        /\ (pc = "done" /\ sms.pc = "raised") => "sms" \in out.failed

C15_Witness ==
    /\ pc = "done" /\ out.rc = 0
    /\ sms.pc = "raised"
    /\ sms.result = SmsError("EnvironmentError")
    /\ out.failed = {"sms"}
    /\ Len(store.rows) = 2

\* main() has upserted today's row of day 1, found yesterday's count and built
\* the message, as a run of day 1 does after a run of day 0; phonelist.txt is
\* any of PhoneFiles, or is not there
SmsInit ==
    LET today_dt     == datetime(1, 4, "beijing")
        yesterday_dt == minus_one_day(today_dt)
        ycount       == parse_workshop_mod_count(PageSeparators)
        count        == parse_workshop_mod_count(PageSeeAll)
    IN  /\ store = ensure_excel_row(
                       ensure_excel_row(NoStore, yesterday_dt, ycount.v),
                       today_dt, count.v)
        /\ last = NoOp
        /\ edits = 0
        /\ clock = today_dt
        /\ pc = "sms"
        /\ http = [IdleHttp EXCEPT
                     !.pc = "returned", !.attempts = 1,
                     !.events = <<Event("get", TRUE, PageSeeAll)>>,
                     !.result = Text(PageSeeAll)]
        /\ run = [html |-> Text(PageSeeAll), count |-> count,
                  today_dt |-> today_dt, yesterday_dt |-> yesterday_dt,
                  ycount |-> ycount, load_workbook |-> TRUE,
                  msg |-> summarize(today_dt, yesterday_dt, count.v, ycount)]
        /\ out = [NoOut EXCEPT
                    !.steps = <<"fetch", "extract", "lookup", "upsert",
                                "debug", "summarize">>,
                    !.toasts = <<"done">>]
        /\ sms = IdleSms
        /\ phonelist \in PhoneFiles \cup {NoFile}

SmsNext ==
    \/ Sms
    \/ SmsSend
    \/ SmsSleep
    \/ SmsEnd

SpecSms == SmsInit /\ [][SmsNext]_vars

\* the sends send_mod_count_sms has attempted, in order
Sends == SelectSeq(sms.events, LAMBDA ev : ev.what = "send")

\* how many of them succeeded
Succeeded == Len(SelectSeq(Sends, LAMBDA ev : ev.outcome = "OK"))

\* the lines of the file that hold a well-formed number
WellFormed(file) == SelectSeq(file.lines, is_valid)

\* C16: over the list of n valid numbers the loader hands to the loop, the
\* k-th send goes to the k-th number, so each number is tried once and in
\* list order; a failure response or an exception of a send does not end the
\* loop: the call returns only after n sends and never raises once a send was
\* made; the tally returned is (number of sends that succeeded, n), with
\* 0 <= success_count <= total.
C16_PerRecipientIsolation ==
    LET n == Len(sms.phone_numbers)
    IN  /\ Len(Sends) <= n
        /\ \A k \in 1..Len(Sends) : Sends[k].to = sms.phone_numbers[k]
        /\ sms.pc \in {"loop", "sleep"} => Len(Sends) < n
        /\ sms.pc = "raised" => Sends = <<>>
        /\ sms.pc = "returned" =>
              /\ Len(Sends) = n
              /\ sms.result.total = n
              /\ sms.result.success_count = Succeeded
              /\ 0 <= sms.result.success_count
              /\ sms.result.success_count <= sms.result.total

C16_Witness ==
    /\ pc = "done" /\ sms.pc = "returned"
    /\ Len(sms.phone_numbers) = 3
    /\ Sends[1].outcome = "exception"
    /\ Sends[2].outcome = "isv.BUSINESS_LIMIT_CONTROL"
    /\ Sends[3].outcome = "OK"
    /\ sms.result = Tally(1, 3)

\* the pauses send_mod_count_sms has made, in order
Pauses == SelectSeq(sms.events, LAMBDA ev : ev.what = "sleep")

\* C23: the sends are made one after another, and a pause of SendPause
\* seconds separates every two consecutive sends: what the call does is a
\* send, then pause and send alternately, so no pause comes before the first
\* send, no two sends or two pauses follow each other, and a call that
\* returns after n >= 1 sends has paused n - 1 times, the last thing it did
\* being a send.
C23_SequentialFanOut ==
    LET n == Len(sms.phone_numbers)
    IN  /\ \A k \in 1..Len(sms.events) :
              IF k % 2 = 1 THEN sms.events[k].what = "send"
              ELSE sms.events[k] = SmsEvent("sleep", <<>>, SendPause)
        /\ sms.pc = "sleep" => Len(sms.events) % 2 = 1
        /\ sms.pc = "loop" => Len(sms.events) % 2 = 0
        /\ (sms.pc = "returned" /\ n >= 1) =>
              /\ Len(Sends) = n
              /\ Len(Pauses) = n - 1
              /\ sms.events[Len(sms.events)].what = "send"

C23_Witness ==
    /\ sms.pc = "returned"
    /\ Len(sms.phone_numbers) = 3
    /\ Len(Sends) = 3
    /\ Len(Pauses) = 2
    /\ sms.events[2].what = "sleep" /\ sms.events[4].what = "sleep"

\* C17 as stated: one send for every well-formed entry of the list, none for
\* a malformed one, and totalCount is the number of well-formed entries.
C17_OneSendPerWellFormedEntry ==
    sms.pc = "returned" =>
        /\ Len(Sends) = Len(WellFormed(phonelist))
        /\ sms.result.total = Len(WellFormed(phonelist))

\* C17, amended: one send for every distinct well-formed number of the list
\* (entries that hold the same number after cleaning count once), none for a
\* malformed entry, and totalCount is the number of distinct well-formed
\* numbers; a malformed entry adds to neither count.
C17_OneSendPerDistinctNumber ==
    sms.pc = "returned" =>
        LET numbers == {clean_num(WellFormed(phonelist)[k]) :
                            k \in 1..Len(WellFormed(phonelist))}
        IN  /\ {Sends[k].to : k \in 1..Len(Sends)} = numbers
            /\ Len(Sends) = Cardinality(numbers)
            /\ sms.result.total = Cardinality(numbers)
            /\ sms.result.success_count <= Cardinality(numbers)

C17_Witness ==
    /\ sms.pc = "returned"
    /\ phonelist = File(<<PhoneB, LineDashed, LineShort, PhoneA>>)
    /\ Len(Sends) = 2
    /\ sms.result = Tally(2, 2)

\* the steps of a run, in the order main() takes them
Pipeline == <<"fetch", "extract", "lookup", "upsert", "debug", "summarize", "sms">>

IsPrefix(a, b) == Len(a) <= Len(b) /\ a = SubSeq(b, 1, Len(a))

\* C19: the steps of a run are taken in the order fetch, extract, lookup of
\* yesterday, upsert of today, summarize, notify; the ledger is written only
\* by the upsert step, after the lookup and only when fetch and extract
\* succeeded, so a run whose fetch or extract fails leaves the ledger as it
\* was.
C19_PipelineOrdering ==
    /\ [](/\ IsPrefix(out.steps, Pipeline)
          /\ out.failed \cap {"transport", "extractor"} # {}
                => Steps \cap {"lookup", "upsert"} = {})
    /\ [][store' # store =>
            /\ pc = "upsert"
            /\ out.steps = <<"fetch", "extract", "lookup">>
            /\ out'.steps = <<"fetch", "extract", "lookup", "upsert">>
            /\ out.failed \cap {"transport", "extractor"} = {}]_vars

C19_Witness ==
    /\ pc = "done" /\ out.rc = 1
    /\ out.failed = {"extractor"}
    /\ out.steps = <<"fetch", "extract">>
    /\ Len(store.rows) = 1

\* how many times the run has called send_mod_count_sms
SmsCalls == Len(SelectSeq(out.steps, LAMBDA name : name = "sms"))

\* C24: a run calls send_mod_count_sms at most once, and only after it has
\* upserted today's row and produced the summary, the SMS module being
\* loaded and yesterday's count found; a run that did not find yesterday's
\* count, or whose SMS module is not loaded, skips the block and attempts no
\* send.
C24_GatedOnYesterday ==
    /\ SmsCalls <= 1
    /\ SmsCalls = 1 <=> sms.pc \in {"loop", "sleep", "returned", "raised"}
    /\ SmsCalls = 1 =>
          /\ out.steps = Pipeline
          /\ run.ycount # None
          /\ sms.SMS_AVAILABLE
          /\ run.msg # None
          /\ out.toasts = <<"done">>
          /\ get_yesterday_count(store, get_date_str(run.today_dt))
                = Found(datetime(run.today_dt.day, 0, "naive"), run.count.v)
    /\ SmsCalls = 0 => sms.events = <<>>
    /\ sms.pc = "skipped" =>
          /\ ~sms.SMS_AVAILABLE \/ run.ycount = None
          /\ out.steps = SubSeq(Pipeline, 1, Len(Pipeline) - 1)
    /\ (run.ycount = None /\ "lookup" \in Steps) =>
          /\ sms.pc \in {"idle", "skipped"}
          /\ Sends = <<>>
    /\ pc \in {"sms", "done"} \/ sms.pc = "idle"

C24_WitnessSkipped ==
    /\ pc = "done" /\ out.rc = 0
    /\ sms.pc = "skipped"
    /\ sms.SMS_AVAILABLE
    /\ run.ycount = None
    /\ phonelist.exists
    /\ Len(store.rows) = 2

C24_Witness ==
    /\ pc = "done" /\ out.rc = 0
    /\ sms.pc = "returned"
    /\ SmsCalls = 1
    /\ Len(Sends) = 2
    /\ run.ycount # None

\* the run of the script has built its message
ScriptDone == pc = "done" /\ out.rc = 0 /\ run.msg # None

\* C20 as stated: the date of the lookup is one calendar day before the date
\* of the upsert, and the message shows these two dates, also when midnight
\* passes between two steps of the run.
C20_DateConsistency ==
    /\ (run.today_dt # None /\ run.yesterday_dt # None) =>
          run.yesterday_dt.day = run.today_dt.day - 1
    /\ ScriptDone =>
          /\ run.msg.year_of = run.today_dt.day
          /\ run.msg.month_of = run.today_dt.day
          /\ run.msg.day_of = run.today_dt.day
          /\ run.msg.clause # None =>
                run.msg.clause.yesterday = run.yesterday_dt.day

\* -------------------------------------------------------- extractor claims
\* main() has fetched a page, any of ParsePages, and is about to parse it
ParseInit ==
    /\ store = NoStore
    /\ last = NoOp
    /\ edits = 0
    /\ clock = datetime(0, 4, "beijing")
    /\ pc = "invoke_http"
    /\ \E html \in ParsePages :
          http = [IdleHttp EXCEPT !.pc = "returned", !.attempts = 1,
                                  !.events = <<Event("get", TRUE, html)>>,
                                  !.result = Text(html)]
    /\ run = NoRun
    /\ out = [NoOut EXCEPT !.steps = <<"fetch">>]
    /\ sms = IdleSms
    /\ phonelist = NoFile

ParseNext == Parse

SpecParse == ParseInit /\ [][ParseNext]_vars

\* the patterns that match the page
Matches(html) == {k \in 1..Len(patterns) : html[k] # <<>>}

\* the matching patterns whose capture holds at least one digit
Usable(html) == {k \in Matches(html) : strip_non_digits(html[k]) # <<>>}

First(S) == CHOOSE k \in S : \A j \in S : k <= j

\* the number pattern k captures: its digits, read in base ten
Number(html, k) == int_of(strip_non_digits(html[k]))

\* C11: a page that matches none of the patterns makes the parse raise, and
\* no value reaches main; a value that is returned is a non-negative integer
\* and is the number captured by a matching pattern, so 0 is returned only
\* when a captured number is 0.
C11_ParseFailure ==
    run.html # None =>
        LET html == run.html.body
        IN  /\ Matches(html) = {} =>
                  /\ run.count = None
                  /\ pc = "except"
                  /\ "extractor" \in out.failed
            /\ run.count # None =>
                  /\ run.count.v \in Nat
                  /\ \E k \in Usable(html) : run.count.v = Number(html, k)

C11_Witness ==
    /\ run.html # None
    /\ Matches(run.html.body) = {}
    /\ pc = "except"
    /\ out.failed = {"extractor"}

\* C12 as stated: the first pattern that matches decides the result, also
\* when its capture holds separators only: a value that is returned is the
\* number of the first matching pattern, and no later pattern supplies one.
C12_FirstMatchWins ==
    (run.html # None /\ Matches(run.html.body) # {}) =>
        LET html == run.html.body
            k    == First(Matches(html))
        IN  /\ k \in Usable(html) => run.count = IntCell(Number(html, k))
            /\ k \notin Usable(html) => run.count = None

\* C12, amended: the first pattern that matches with a capture holding at
\* least one digit decides the result: that capture, with every non-digit
\* stripped, is returned as an integer.  A pattern that matches with a
\* capture of separators only is passed over and the next pattern is tried;
\* the parse raises when no pattern is left.
C12_FirstUsableMatchWins ==
    run.html # None =>
        LET html == run.html.body
        IN  IF Usable(html) # {}
            THEN run.count = IntCell(Number(html, First(Usable(html))))
            ELSE run.count = None /\ pc = "except"

C12_Witness ==
    /\ run.html # None
    /\ run.html.body[1] = <<",">>
    /\ run.html.body[2] = <<"1", ",">>
    /\ run.html.body[3] = <<"0">>
    /\ run.count = IntCell(1)

\* ---------------------------------------------------------- ledger claims
\* the calendar days a date cell stands for (none for an empty or junk cell)
CanonDay(cell) ==
    IF cell.kind = "datetime" THEN {cell.v.day}
    ELSE IF cell.kind = "str" /\ cell.v.fmt \in {"slash", "iso"} THEN {cell.v.day}
    ELSE {}

\* the data rows of st whose date normalizes to day d
RowsFor(st, d) == {i \in 1..Len(st.rows) : d \in CanonDay(st.rows[i].date)}

\* the date cell holds day d as a native date or as the text 'YYYY/MM/DD'
NativeOrCanonical(cell, d) ==
    \/ cell.kind = "datetime" /\ cell.v.day = d
    \/ cell = StrCell(DateStr(d))

\* C1: an upsert repeated with the same (date, label, count) leaves the store
\* as the first call left it, with exactly one row for the date, holding the
\* count.
C1_UpsertIdempotent ==
    [][(/\ last.op = "upsert" /\ last'.op = "upsert"
        /\ last'.day = last.day /\ last'.count = last.count)
       => /\ store' = store
          /\ Len(store'.rows) = Len(store.rows)
          /\ Cardinality(RowsFor(store', last'.day)) = 1
          /\ \A i \in RowsFor(store', last'.day) :
                store'.rows[i].count = IntCell(last'.count)]_vars

C1_Witness ==
    /\ last.op = "upsert" /\ last.prev = "same"
    /\ Len(store.rows) = 2
    /\ RowsFor(store, last.day) = {1}

\* C2: upsert(D, C1) followed by upsert(D, C2) makes lookupByDate(D) return C2,
\* with exactly one row for D.
C2_UpsertOverwrites ==
    (last.op = "upsert" /\ last.prev \in {"same", "sameday"})
       => /\ get_yesterday_count(store, DateStr(last.day)).kind = "found"
          /\ get_yesterday_count(store, DateStr(last.day)).count = last.count
          /\ Cardinality(RowsFor(store, last.day)) = 1

C2_Witness ==
    /\ last.op = "upsert" /\ last.prev = "sameday"
    /\ Len(store.rows) = 2
    /\ store.rows[2].count = IntCell(last.count)
    /\ RowsFor(store, last.day) = {2}

\* C3: no two data rows normalize to the same canonical date.
C3_OneRowPerDay ==
    \A i, j \in 1..Len(store.rows) :
        CanonDay(store.rows[i].date) \cap CanonDay(store.rows[j].date) # {}
            => i = j

C3_Witness ==
    /\ Len(store.rows) = 2
    /\ last.op = "upsert" /\ last.prev # "other"
    /\ \A i \in 1..2 : CanonDay(store.rows[i].date) # {}

\* C4: a lookup by date returns "not found" when no row normalizes to the
\* date, whatever other rows the ledger holds.
C4_StrictLookup ==
    /\ \A d \in Days :
          RowsFor(store, d) = {} => get_yesterday_count(store, DateStr(d)) = None
    /\ (last.op = "lookup" /\ RowsFor(store, last.day) = {}) => last.res = None

C4_Witness ==
    /\ last.op = "lookup" /\ last.res = None
    /\ RowsFor(store, last.day) = {}
    /\ Len(store.rows) >= 1
    /\ get_yesterday_count(store, None) # None

\* C5: an upsert for one date leaves the rows of every other date as they
\* were, so a lookup of another date returns what it returned before; no step
\* removes a row.
C5_UpsertFrame ==
    [][/\ Len(store'.rows) >= Len(store.rows)
       /\ (last'.op = "upsert" /\ store' # store) =>
            LET kept == (1..Len(store.rows)) \ RowsFor(store, last'.day)
            IN  /\ \A d \in Days \ {last'.day} :
                      get_yesterday_count(store', DateStr(d))
                          = get_yesterday_count(store, DateStr(d))
                /\ \A i \in kept : store'.rows[i] = store.rows[i]]_vars

C5_Witness ==
    /\ last.op = "upsert"
    /\ RowsFor(store, last.day) = {2}
    /\ \E d \in Days \ {last.day} :
          get_yesterday_count(store, DateStr(d)).kind = "found"

\* C6: a row whose date cell holds D as a native date or as 'YYYY/MM/DD' text
\* is the row a lookup of D returns and the row an upsert of D overwrites.
C6_DateRoundTrip ==
    /\ [](\A i \in 1..Len(store.rows) :
            (/\ last.op = "lookup"
             /\ NativeOrCanonical(store.rows[i].date, last.day)
             /\ store.rows[i].count.kind = "int")
            => /\ last.res.kind = "found"
               /\ last.res.count = store.rows[i].count.v
               /\ last.res.date.day = last.day)
    /\ [][\A i \in 1..Len(store.rows) :
            (/\ last'.op = "upsert"
             /\ NativeOrCanonical(store.rows[i].date, last'.day))
            => /\ Len(store'.rows) = Len(store.rows)
               /\ store'.rows[i].count = IntCell(last'.count)
               /\ store'.rows[i].date = store.rows[i].date]_vars

C6_Witness ==
    /\ last.op = "upsert"
    /\ \E i \in 1..Len(store.rows) :
          /\ store.rows[i].date.kind = "datetime"
          /\ store.rows[i].date.v.day = last.day
          /\ store.rows[i].count = IntCell(last.count)
    /\ Cardinality(RowsFor(store, last.day)) = 1

\* C18 as stated: without a target date, a ledger with at least one data row
\* answers with the date and the count of its last row, whatever that row
\* holds; a store that does not exist or has no data row answers "not found".
C18_LatestIsLastRow ==
    last.op = "latest" =>
        IF store.exists /\ Len(store.rows) >= 1
        THEN /\ last.res.kind = "found"
             /\ IntCell(last.res.count) = store.rows[Len(store.rows)].count
             /\ last.res.date = parse_date_cell(store.rows[Len(store.rows)].date)
        ELSE last.res = None

\* C18, amended: without a target date, a ledger with at least one data row
\* whose last row holds a count answers with that row's count and its date
\* as parsed (no date when the date cell cannot be parsed), whatever date the
\* row holds; it answers "not found" when the store does not exist, has no
\* data row, or the count cell of its last row is empty.
C18_LatestIsLastReadableRow ==
    last.op = "latest" =>
        IF /\ store.exists /\ Len(store.rows) >= 1
           /\ store.rows[Len(store.rows)].count.kind = "int"
        THEN /\ last.res.kind = "found"
             /\ last.res.count = store.rows[Len(store.rows)].count.v
             /\ last.res.date = parse_date_cell(store.rows[Len(store.rows)].date)
        ELSE last.res = None

C18_Witness ==
    /\ last.op = "latest"
    /\ Len(store.rows) = 2
    /\ CanonDay(store.rows[1].date) = {1}
    /\ CanonDay(store.rows[2].date) = {0}
    /\ store.rows[1].count # store.rows[2].count
    /\ last.res.kind = "found"
    /\ last.res.date.day = 0

\* the first row of st, in storage order, whose date normalizes to day d;
\* 0 when there is none
FirstFor(st, d) ==
    IF RowsFor(st, d) = {} THEN 0
    ELSE CHOOSE i \in RowsFor(st, d) : \A j \in RowsFor(st, d) : i <= j

\* on the ledger st, the upsert of day d overwrites the row whose count the
\* lookup by date of day d, which returned `looked', has read
SameRow(st, d, looked) ==
    LET first == FirstFor(st, d)
    IN  /\ IF first = 0 THEN looked = None
           ELSE /\ looked = IF py_int(st.rows[first].count) = None THEN None
                            ELSE Found(parse_date_cell(st.rows[first].date),
                                       py_int(st.rows[first].count).v)
                /\ \A j \in RowsFor(st, d) \ {first} :
                      get_yesterday_count([st EXCEPT !.rows[j].count = None],
                                          DateStr(d)) = looked
        /\ LET c   == MaxCount
               st2 == ensure_excel_row(st, datetime(d, 4, "beijing"), c)
               IN  /\ get_yesterday_count(st2, DateStr(d)) =
                         Found(IF first = 0 THEN strptime(DateStr(d))
                               ELSE parse_date_cell(st.rows[first].date), c)
                   /\ IF first = 0
                      THEN /\ Len(st2.rows) = Len(st.rows) + 1
                           /\ SubSeq(st2.rows, 1, Len(st.rows)) = st.rows
                           /\ FirstFor(st2, d) = Len(st2.rows)
                      ELSE /\ Len(st2.rows) = Len(st.rows)
                           /\ st2.rows[first].count = IntCell(c)
                           /\ \A i \in 1..Len(st.rows) :
                                 i # first => st2.rows[i] = st.rows[i]

\* C21: on every ledger, whether its date cells hold native dates, canonical
\* text, ISO text or unparseable text, and for every canonical date D, the
\* lookup by date reads the count of the first row in storage order that
\* normalizes to D, the upsert of D overwrites that same row, and the upsert
\* appends a row exactly when no row normalizes to D.  It is stated where a
\* lookup by date has just returned, on the ledger it read and on that
\* ledger with one more date cell retyped by hand to a representation of D,
\* which gives D several rows.
C21_LookupUpsertAgree ==
    last.op = "lookup" =>
        /\ SameRow(store, last.day, last.res)
        /\ \A i \in 1..Len(store.rows) : \A cell \in Representations(last.day) :
              LET st == [store EXCEPT !.rows[i].date = cell]
              IN  SameRow(st, last.day,
                          get_yesterday_count(st, DateStr(last.day)))

C21_Witness ==
    /\ last.op = "lookup"
    /\ Len(store.rows) = 2
    /\ CanonDay(store.rows[1].date) = {1 - last.day}
    /\ store.rows[2].date = StrCell(IsoStr(last.day))
    /\ FirstFor(store, last.day) = 2
    /\ last.res # None
    /\ last.res.count = MaxCount
    /\ store.rows[1].count # store.rows[2].count

\* C22: an upsert of D that finds a row for D changes that row's count and
\* nothing else that is stored: the row's date cell keeps the representation
\* it had, its subject cell, its position, every other row and the header row
\* are as they were.
C22_OverwriteTouchesOnlyCount ==
    [][(last'.op = "upsert" /\ store.exists /\ RowsFor(store, last'.day) # {})
       => LET hit == FirstFor(store, last'.day)
          IN  /\ store'.header = store.header
              /\ Len(store'.rows) = Len(store.rows)
              /\ store'.rows[hit].count = IntCell(last'.count)
              /\ \A i \in 1..Len(store.rows) :
                    /\ store'.rows[i].date = store.rows[i].date
                    /\ store'.rows[i].game = store.rows[i].game
                    /\ i # hit => store'.rows[i] = store.rows[i]]_vars

C22_Witness ==
    /\ last.op = "upsert"
    /\ last.prev = "other"
    /\ Len(store.rows) = 2
    /\ store.rows[1].date.kind = "datetime"
    /\ CanonDay(store.rows[1].date) = {last.day}
    /\ store.rows[1].count = IntCell(last.count)
    /\ store.rows[2].count # store.rows[1].count
    /\ store.header = Header

====
